---- MODULE Spec2Model ----
(***************************************************************************)
(* Model of bot.py (UltimateCRT Bot): the indicator functions, the         *)
(* confluence rule and the de-duplicated alerting of analyze_symbol, the   *)
(* JSON history file, and the loop of the entry point over SYMBOLS.        *)
(*                                                                         *)
(* Arithmetic.  Prices and volumes are integers (ticks).  The code works   *)
(* in binary floating point; here                                          *)
(*   - stop loss / take profit are exact rationals, held as integers in    *)
(*     units of 1/Unit tick (Unit = SL_BUFFER_DEN * RR_DEN);               *)
(*   - the volume comparison v > mean * 1.5 is cross-multiplied, exact;    *)
(*   - the EMA is held in units of 1/EmaScale tick and rounded to the      *)
(*     nearest unit at every step (an exact EMA-200 has denominators       *)
(*     201^k).                                                             *)
(* Positions are 1-based (pandas position k is position k+1 here).         *)
(***************************************************************************)
EXTENDS Integers, Sequences, FiniteSets, TLC

VARIABLES
    state_file,   \* contents of STATE_FILE (last_signal.json)
    webhook,      \* DISCORD_WEBHOOK_URL of the running process: "set" / "unset"
    pc,           \* the process: "idle", "running", "exited", "aborted"
    idx,          \* position of the loop of __main__ in SYMBOLS
    call,         \* what the latest analyze_symbol call did
    watch,        \* observer: one (symbol, timestamp, direction) triple
    delivered     \* observer: notifications delivered for watch (saturates at 2)

vars == <<state_file, webhook, pc, idx, call, watch, delivered>>

-----------------------------------------------------------------------------
(* Configuration, bot.py lines 9-13 *)

SYMBOLS == <<"BTC_USDT", "ETH_USDT", "SOL_USDT", "BNB_USDT">>

MIN_CANDLES == 200
EMA_PERIOD == 200
VOL_WINDOW == 20
SWING_LENGTH == 5
\* 1.5 = VOL_NUM / VOL_DEN
VOL_NUM == 3
VOL_DEN == 2
\* 0.0005 = 1 / SL_BUFFER_DEN
SL_BUFFER_DEN == 2000
\* 2.5 = RR_NUM / RR_DEN
RR_NUM == 5
RR_DEN == 2

\* sl and tp are integers in units of 1/Unit tick
Unit == SL_BUFFER_DEN * RR_DEN

-----------------------------------------------------------------------------
(* Bounds of the model *)

BasePrice == 10
BaseVolume == 100
MaxVolMult == 2
TailLen == 1
MaxExtra == 1
MaxTime == 2
EmaScale == 10000

-----------------------------------------------------------------------------
(* pandas / numpy primitives *)

\* numpy.nan; every number of the model is >= 0
NaN == -1

Max2(a, b) == IF a >= b THEN a ELSE b
Min2(a, b) == IF a <= b THEN a ELSE b

\* a > b on floats: False when either side is NaN
Gt(a, b) == a # NaN /\ b # NaN /\ a > b
Lt(a, b) == a # NaN /\ b # NaN /\ a < b

\* a function on 1..n as an explicit tuple
Tuple(f) == f \o <<>>

\* df[name]
Column(df, name) == Tuple([i \in 1..Len(df) |-> df[i][name]])

\* Series.shift(k): position i takes the value of position i-k, NaN outside
shift(s, k) ==
    Tuple([i \in 1..Len(s) |-> IF (i - k) \in 1..Len(s) THEN s[i - k] ELSE NaN])

\* Series.where(mask): NaN where the mask is False
where(s, mask) == Tuple([i \in 1..Len(s) |-> IF mask[i] THEN s[i] ELSE NaN])

\* the forward fill of s[a..b] given the fill prev of s[a-1], by halving
RECURSIVE ffill_scan(_, _, _, _)
ffill_scan(s, a, b, prev) ==
    IF a > b THEN <<>>
    ELSE IF a = b THEN <<IF s[a] # NaN THEN s[a] ELSE prev>>
    ELSE LET mid == (a + b) \div 2
             left == ffill_scan(s, a, mid, prev)
         IN  left \o ffill_scan(s, mid + 1, b, left[Len(left)])

\* Series.ffill(): a NaN takes the last value before it that is not NaN
ffill(s) == ffill_scan(s, 1, Len(s), NaN)

\* Series[mask] with a boolean mask: the rows where the mask is True, in order
select(s, mask) ==
    LET rows == SelectSeq(Tuple([i \in 1..Len(s) |-> i]), LAMBDA i : mask[i])
    IN  Tuple([k \in 1..Len(rows) |-> s[rows[k]]])

RECURSIVE SumRange(_, _, _)
SumRange(s, a, b) == IF a > b THEN 0 ELSE s[a] + SumRange(s, a + 1, b)

RECURSIVE MinRange(_, _, _)
MinRange(s, a, b) == IF a = b THEN s[a] ELSE Min2(s[a], MinRange(s, a + 1, b))

RECURSIVE MaxRange(_, _, _)
MaxRange(s, a, b) == IF a = b THEN s[a] ELSE Max2(s[a], MaxRange(s, a + 1, b))

-----------------------------------------------------------------------------
(* Indicators, bot.py lines 16-33 *)

\* series.ewm(span=period, adjust=False).mean(), in units of 1/EmaScale:
\* y[1] = x[1], y[i] = (1 - a) * y[i-1] + a * x[i] with a = 2 / (period + 1),
\* each step rounded to the nearest unit
ema_step(prev, x, period) ==
    (2 * ((period - 1) * prev + 2 * x * EmaScale) + (period + 1)) \div (2 * (period + 1))

\* the values y[a..b] given y[a-1] = prev, by halving
RECURSIVE ema_scan(_, _, _, _, _)
ema_scan(series, period, a, b, prev) ==
    IF a > b THEN <<>>
    ELSE IF a = b THEN <<ema_step(prev, series[a], period)>>
    ELSE LET mid == (a + b) \div 2
             left == ema_scan(series, period, a, mid, prev)
         IN  left \o ema_scan(series, period, mid + 1, b, left[Len(left)])

ema(series, period) ==
    IF Len(series) = 0 THEN <<>>
    ELSE <<series[1] * EmaScale>>
         \o ema_scan(series, period, 2, Len(series), series[1] * EmaScale)

detect_fvg(df) ==
    LET low == Column(df, "low")
        high == Column(df, "high")
        high_2 == shift(high, 2)
        low_2 == shift(low, 2)
        bullish == Tuple([i \in 1..Len(df) |-> Gt(low[i], high_2[i])])
        bearish == Tuple([i \in 1..Len(df) |-> Lt(high[i], low_2[i])])
    IN  <<ffill(where(low, bullish)), ffill(where(high, bearish))>>

detect_ob(df) ==
    LET n == Len(df)
        open == Column(df, "open")
        high == Column(df, "high")
        low == Column(df, "low")
        close == Column(df, "close")
        next_close == shift(close, -1)
        bull_ob == Tuple([i \in 1..n |-> close[i] > open[i] /\ Gt(next_close[i], high[i])])
        bear_ob == Tuple([i \in 1..n |-> close[i] < open[i] /\ Lt(next_close[i], low[i])])
        \* mask.shift(1).fillna(False)
        bull_mask == Tuple([i \in 1..n |-> IF i = 1 THEN FALSE ELSE bull_ob[i - 1]])
        bear_mask == Tuple([i \in 1..n |-> IF i = 1 THEN FALSE ELSE bear_ob[i - 1]])
    IN  <<ffill(select(low, bull_mask)), ffill(select(high, bear_mask))>>

\* rolling(window=length).min() / .max() at the last position
get_swing_levels(df, length) ==
    LET n == Len(df)
    IN  IF n < length THEN <<NaN, NaN>>
        ELSE <<MinRange(Column(df, "low"), n - length + 1, n),
               MaxRange(Column(df, "high"), n - length + 1, n)>>

-----------------------------------------------------------------------------
(* The market-data API: what a request for one symbol can bring back *)

Candle(t, o, h, l, c, v) ==
    [timestamp |-> t, open |-> o, high |-> h, low |-> l, close |-> c, volume |-> v]

FlatCandle(t) == Candle(t, BasePrice, BasePrice, BasePrice, BasePrice, BaseVolume)

Levels == (BasePrice - 1)..(BasePrice + 1)

\* one candle of the tail: open, close, a wick on both sides, a volume multiple
Shapes == [open : Levels, close : Levels, wick : {0, 1}, mult : {1, MaxVolMult}]

ShapeCandle(t, s) ==
    Candle(t, s.open, Max2(s.open, s.close) + s.wick, Min2(s.open, s.close) - s.wick,
           s.close, BaseVolume * s.mult)

\* The first candles of the history, by kind; every later candle of the prefix
\* is flat at BasePrice.
\*   "obs":  1 bearish, 2 closes below its low; 3 bullish, 4 closes above its
\*           high (both order blocks, no gap)
\*   "gaps" and after: 3 opens a bearish gap under 1, 6 opens a bullish gap over
\*           4; candle 1 is bearish with "bear" (2 closes below its low) and
\*           candle 4 bullish with "bull" (5 closes above its high)
SeedCandle(t, i, kind) ==
    LET B == BasePrice
        bear == kind \in {"gaps_bear", "full"}
        bull == kind \in {"gaps_bull", "full"}
    IN  IF kind = "flat" \/ i > 6 THEN FlatCandle(t)
        ELSE IF kind = "obs"
        THEN CASE i = 1 -> Candle(t, B + 1, B + 1, B, B, BaseVolume)
               [] i = 2 -> Candle(t, B, B, B - 1, B - 1, BaseVolume)
               [] i = 3 -> Candle(t, B - 1, B, B - 1, B, BaseVolume)
               [] i = 4 -> Candle(t, B, B + 1, B, B + 1, BaseVolume)
               [] OTHER -> FlatCandle(t)
        ELSE CASE i = 1 -> Candle(t, IF bear THEN B + 2 ELSE B + 1, B + 2, B + 1, B + 1, BaseVolume)
               [] i = 2 -> Candle(t, B + 1, B + 1, B - 1, B - 1, BaseVolume)
               [] i = 3 -> Candle(t, B - 1, B, B - 1, B, BaseVolume)
               [] i = 4 -> Candle(t, IF bull THEN B - 2 ELSE B - 1, B - 1, B - 2, B - 1, BaseVolume)
               [] i = 5 -> Candle(t, B - 1, B + 1, B - 1, B + 1, BaseVolume)
               [] OTHER -> Candle(t, B + 1, B + 1, B, B, BaseVolume)

PrefixKinds == {"flat", "obs", "gaps", "gaps_bull", "gaps_bear", "full"}

\* the rows of a response: r.n candles, the last Len(r.tail) of them r.tail,
\* candle i stamped r.t0 + i
Rows(r) ==
    Tuple([i \in 1..r.n |->
             IF i > r.n - Len(r.tail)
             THEN ShapeCandle(r.t0 + i, r.tail[i - (r.n - Len(r.tail))])
             ELSE SeedCandle(r.t0 + i, i, r.prefix)])

Tails == [1..TailLen -> Shapes]

Response(net, rc, cells, n, prefix, tail, t0) ==
    [net |-> net, rc |-> rc, cells |-> cells, n |-> n, prefix |-> prefix,
     tail |-> tail, t0 |-> t0]

\* fetch_klines: the DataFrame of the rows, empty on any failure
fetch_klines(r) ==
    IF r.net # "ok" THEN <<>>          \* requests.get or resp.json() raised
    ELSE IF r.rc # 0 THEN <<>>         \* data.get("rc") != 0
    ELSE Rows(r)

-----------------------------------------------------------------------------
(* analyze_symbol, bot.py lines 73-109: indicators and confluence *)

NoSignal == [raised |-> "no", direction |-> "None", ts |-> 0, entry |-> 0, sl |-> 0, tp |-> 0]

Raised(e) == [NoSignal EXCEPT !.raised = e]

\* Series.iloc[-1] of a Series that may be empty
iloc_last(s) == s[Len(s)]

\* v > vol_avg.iloc[-1] * 1.5, with vol_avg = rolling(20).mean()
vol_spike(df) ==
    LET n == Len(df)
        total == SumRange(Column(df, "volume"), n - VOL_WINDOW + 1, n)
    IN  df[n].volume * VOL_WINDOW * VOL_DEN > total * VOL_NUM

\* mutant: the buffer taken from the swing low, not from the price
bullish_sl_of_swing(p, swing_l) == swing_l * Unit - swing_l * (Unit \div SL_BUFFER_DEN)

\* sl = swing_l - (p * 0.0005), in units of 1/Unit
bullish_sl(p, swing_l) == swing_l * Unit - p * (Unit \div SL_BUFFER_DEN)

\* risk = p - sl ; tp = p + (risk * 2.5)
bullish_tp(p, sl) == p * Unit + ((p * Unit - sl) * RR_NUM) \div RR_DEN

\* sl = swing_h + (p * 0.0005)
bearish_sl(p, swing_h) == swing_h * Unit + p * (Unit \div SL_BUFFER_DEN)

\* risk = sl - p ; tp = p - (risk * 2.5)
bearish_tp(p, sl) == p * Unit - ((sl - p * Unit) * RR_NUM) \div RR_DEN

evaluate(df) ==
    LET n == Len(df)
        last_candle_time == df[n].timestamp
        ema200 == ema(Column(df, "close"), EMA_PERIOD)
        fvg == detect_fvg(df)
        ob == detect_ob(df)
        swing == get_swing_levels(df, SWING_LENGTH)
        p == df[n].close
    IN  \* lines 90, 92: .iloc[-1] of an empty Series raises IndexError
        IF Len(ob[1]) = 0 \/ Len(ob[2]) = 0 THEN Raised("IndexError")
        ELSE
        LET fvg_b == iloc_last(fvg[1]) # NaN /\ p >= iloc_last(fvg[1])
            ob_b == iloc_last(ob[1]) # NaN /\ p >= iloc_last(ob[1])
            fvg_s == iloc_last(fvg[2]) # NaN /\ p <= iloc_last(fvg[2])
            ob_s == iloc_last(ob[2]) # NaN /\ p <= iloc_last(ob[2])
        IN  IF p * EmaScale > iloc_last(ema200) /\ vol_spike(df) /\ (fvg_b /\ ob_b)
            THEN [raised |-> "no", direction |-> "BULLISH", ts |-> last_candle_time,
                  entry |-> p * Unit, sl |-> bullish_sl(p, swing[1]),
                  tp |-> bullish_tp(p, bullish_sl(p, swing[1]))]
            ELSE IF p * EmaScale < iloc_last(ema200) /\ vol_spike(df) /\ (fvg_s /\ ob_s)
            THEN [raised |-> "no", direction |-> "BEARISH", ts |-> last_candle_time,
                  entry |-> p * Unit, sl |-> bearish_sl(p, swing[2]),
                  tp |-> bearish_tp(p, bearish_sl(p, swing[2]))]
            ELSE [NoSignal EXCEPT !.ts = last_candle_time]

\* mutant: only an empty frame is skipped
analysis_unchecked(r) ==
    LET df == fetch_klines(r)
    IN  IF Len(df) = 0 THEN [NoSignal EXCEPT !.raised = "skip"]
        ELSE IF r.cells # "numeric" THEN Raised("ValueError")
        ELSE evaluate(df)

\* lines 70-73: fetch, the length check, the conversion to float
analysis(r) ==
    LET df == fetch_klines(r)
    IN  IF Len(df) = 0 \/ Len(df) < MIN_CANDLES THEN [NoSignal EXCEPT !.raised = "skip"]
        ELSE IF r.cells # "numeric" THEN Raised("ValueError")
        ELSE evaluate(df)

EvalInputs ==
    {Response("ok", 0, "numeric", n, k, t, 1) :
        n \in {MIN_CANDLES, MIN_CANDLES + MaxExtra}, k \in PrefixKinds, t \in Tails}

\* what the API answers in the runs of the bot: failures, text cells, a short
\* history, a history without order blocks, and full histories ending in a
\* quiet, a bullish or a bearish candle
QuietShape == [open |-> BasePrice, close |-> BasePrice, wick |-> 0, mult |-> 1]
BullShape == [open |-> BasePrice + 1, close |-> BasePrice + 1, wick |-> 0, mult |-> MaxVolMult]
BearShape == [open |-> BasePrice - 1, close |-> BasePrice - 1, wick |-> 0, mult |-> MaxVolMult]

Feed ==
    {Response("timeout", 0, "numeric", 0, "flat", <<>>, 1),
     Response("badjson", 0, "numeric", 0, "flat", <<>>, 1),
     Response("ok", 1, "numeric", MIN_CANDLES, "full", <<BullShape>>, 1),
     Response("ok", 0, "text", MIN_CANDLES, "full", <<BullShape>>, 1),
     Response("ok", 0, "numeric", MIN_CANDLES - 1, "full", <<BullShape>>, 1),
     Response("ok", 0, "numeric", MIN_CANDLES, "flat", <<QuietShape>>, 1)}
    \cup {Response("ok", 0, "numeric", MIN_CANDLES, "full", <<s>>, t) :
            s \in {QuietShape, BullShape, BearShape}, t \in 1..MaxTime}

\* analysis is a function of the response alone: the responses of Feed are
\* analysed once
FeedTable == [r \in Feed |-> analysis(r)]

analysed(r) == IF r \in DOMAIN FeedTable THEN FeedTable[r] ELSE analysis(r)

-----------------------------------------------------------------------------
(* The history file, bot.py lines 36-49 *)

\* The dict of the file is a function on the symbols; a symbol without a key
\* has the entry Absent, whose fields read as None: what
\* history.get(sym, {}).get(...) gives for it.
SymbolSet == {SYMBOLS[i] : i \in 1..Len(SYMBOLS)}

Absent == [timestamp |-> "None", direction |-> "None"]

\* {} : a dict without keys
EmptyDict == [k \in SymbolSet |-> Absent]

\* data[k] = v
dict_set(d, k, v) == [d EXCEPT ![k] = v]

\* str(timestamp)
str(t) == ToString(t)

NoFile == [status |-> "missing", data |-> EmptyDict]
CorruptFile == [status |-> "corrupt", data |-> EmptyDict]

\* {} when the file is missing or json.load raises
get_last_signal(f) == IF f.status = "ok" THEN f.data ELSE EmptyDict

\* mutant: the entry is put into a new dict, the stored one is not loaded
save_last_signal_fresh(f, sym, timestamp, direction) ==
    [status |-> "ok",
     data |-> dict_set(EmptyDict, sym,
                       [timestamp |-> str(timestamp), direction |-> direction])]

save_last_signal(f, sym, timestamp, direction) ==
    [status |-> "ok",
     data |-> dict_set(get_last_signal(f), sym,
                       [timestamp |-> str(timestamp), direction |-> direction])]

\* mutant: "and" for "or"
is_new_signal_and(history, sym, last_candle_time, direction) ==
    /\ history[sym].timestamp # str(last_candle_time)
    /\ history[sym].direction # direction

\* prev.get("timestamp") != str(last_candle_time) or prev.get("direction") != direction
\* with prev = history.get(sym, {})
is_new_signal(history, sym, last_candle_time, direction) ==
    \/ history[sym].timestamp # str(last_candle_time)
    \/ history[sym].direction # direction

-----------------------------------------------------------------------------
(* The webhook, bot.py lines 51-56 *)

\* what a call of send_discord_alert comes to: nothing is posted without a URL;
\* a post that raises is caught and printed
send_discord_alert(url, post) ==
    IF url = "unset" THEN "not_sent"
    ELSE IF post = "ok" THEN "delivered" ELSE "failed"

-----------------------------------------------------------------------------
(* The process *)

NoCall == [sym |-> "None", input |-> Response("none", 0, "numeric", 0, "flat", <<>>, 0),
           result |-> NoSignal, alert |-> "none", wrote |-> FALSE]

NoWatch == <<"None", 0, "None">>

\* the triples of the first symbol that the responses of Feed can signal
Triples ==
    {<<SYMBOLS[1], MIN_CANDLES + t, d>> : t \in 1..MaxTime, d \in {"BULLISH", "BEARISH"}}

Init ==
    /\ state_file \in {NoFile, CorruptFile}
    /\ webhook = "unset"
    /\ pc = "idle"
    /\ idx = 1
    /\ call = NoCall
    /\ watch = NoWatch
    /\ delivered = 0

\* the scheduler starts the script: DISCORD_WEBHOOK is read from the environment
Start ==
    /\ pc \in {"idle", "exited", "aborted"}
    /\ pc' = "running"
    /\ idx' = 1
    /\ webhook' \in {"set", "unset"}
    /\ call' = NoCall
    /\ UNCHANGED <<state_file, watch, delivered>>

\* analyze_symbol(SYMBOLS[idx]) on the response r; post is what requests.post
\* does if it is called
analyze_symbol(r, post) ==
    /\ pc = "running"
    /\ idx <= Len(SYMBOLS)
    /\ \E a \in {analysed(r)} :
         LET sym == SYMBOLS[idx]
             history == get_last_signal(state_file)
             alerting == /\ a.raised = "no"
                         /\ a.direction # "None"
                         /\ is_new_signal(history, sym, a.ts, a.direction)
             outcome == IF alerting THEN send_discord_alert(webhook, post) ELSE "none"
         IN  /\ post \in (IF alerting /\ webhook = "set" THEN {"ok", "error"} ELSE {"ok"})
             /\ call' = [sym |-> sym, input |-> r, result |-> a, alert |-> outcome,
                         wrote |-> alerting]
             /\ state_file' = IF alerting
                              THEN save_last_signal(state_file, sym, a.ts, a.direction)
                              ELSE state_file
             \* an exception is not caught anywhere: the process dies
             /\ pc' = IF a.raised \in {"IndexError", "ValueError"} THEN "aborted" ELSE "running"
             /\ idx' = IF a.raised \in {"IndexError", "ValueError"} THEN idx ELSE idx + 1
             /\ delivered' = IF outcome = "delivered" /\ watch = <<sym, a.ts, a.direction>>
                             THEN Min2(delivered + 1, 2) ELSE delivered
    /\ UNCHANGED <<webhook, watch>>

\* the loop of __main__ is through: the script ends
Exit ==
    /\ pc = "running"
    /\ idx > Len(SYMBOLS)
    /\ pc' = "exited"
    /\ UNCHANGED <<state_file, webhook, idx, call, watch, delivered>>

Next ==
    \/ Start
    \/ \E r \in Feed, post \in {"ok", "error"} : analyze_symbol(r, post)
    \/ Exit

Spec == Init /\ [][Next]_vars

\* one call of analyze_symbol on any history of EvalInputs
InitEval ==
    /\ state_file = NoFile
    /\ webhook = "set"
    /\ pc = "running"
    /\ idx = 1
    /\ call = NoCall
    /\ watch = NoWatch
    /\ delivered = 0

NextEval == \E r \in EvalInputs : call = NoCall /\ analyze_symbol(r, "ok")

SpecEval == InitEval /\ [][NextEval]_vars

\* the runs of Spec, with the notifications delivered for one triple counted
InitDedup ==
    /\ state_file \in {NoFile, CorruptFile}
    /\ webhook = "unset"
    /\ pc = "idle"
    /\ idx = 1
    /\ call = NoCall
    /\ watch \in Triples
    /\ delivered = 0

SpecDedup == InitDedup /\ [][Next]_vars

-----------------------------------------------------------------------------
(* Properties *)

\* the latest call analysed a history (the fetch brought MIN_CANDLES rows or more)
Called == call.sym # "None"
Frame == fetch_klines(call.input)
Evaluated == Called /\ call.input.net = "ok" /\ call.input.rc = 0
             /\ call.input.n >= MIN_CANDLES /\ call.input.cells = "numeric"

LastClose(df) == df[Len(df)].close
GapFloor(df) == iloc_last(detect_fvg(df)[1])
GapCeiling(df) == iloc_last(detect_fvg(df)[2])
ObFloors(df) == detect_ob(df)[1]
ObCeilings(df) == detect_ob(df)[2]
Ema200(df) == iloc_last(ema(Column(df, "close"), EMA_PERIOD))

\* v > 1.5 x the mean of the last 20 volumes
VolumeSpike(df) ==
    LET n == Len(df)
        last20 == SumRange(Column(df, "volume"), n - 19, n)
    IN  2 * 20 * df[n].volume > 3 * last20

BullishConfluence(df) ==
    /\ LastClose(df) * EmaScale > Ema200(df)
    /\ VolumeSpike(df)
    /\ GapFloor(df) # NaN /\ LastClose(df) >= GapFloor(df)
    /\ Len(ObFloors(df)) > 0 /\ LastClose(df) >= iloc_last(ObFloors(df))

BearishConfluence(df) ==
    /\ LastClose(df) * EmaScale < Ema200(df)
    /\ VolumeSpike(df)
    /\ GapCeiling(df) # NaN /\ LastClose(df) <= GapCeiling(df)
    /\ Len(ObCeilings(df)) > 0 /\ LastClose(df) <= iloc_last(ObCeilings(df))

\* C1: across the runs, the notification of one (symbol, last-candle
\* timestamp, direction) triple is never delivered twice.
C1_NoDuplicateAlert == delivered <= 1

C3_WriteIffNotified == Called => (call.wrote <=> call.alert \in {"delivered", "failed"})

\* C4: for a history of MIN_CANDLES candles or more the direction is BULLISH iff
\* the bullish confluence holds, BEARISH iff the bearish one holds, no signal
\* otherwise, and never both.
ConfluenceRule(df, direction) ==
    /\ (direction = "BULLISH") <=> BullishConfluence(df)
    /\ (direction = "BEARISH") <=> BearishConfluence(df)
    /\ ~(BullishConfluence(df) /\ BearishConfluence(df))

C4_ConfluenceRule == Evaluated => ConfluenceRule(Frame, call.result.direction)

WellFormed(df) ==
    \A i \in 1..Len(df) :
        df[i].low > 0 /\ df[i].low <= df[i].close /\ df[i].close <= df[i].high

Last5(df) == (Len(df) - 4)..Len(df)
SwingLow(df) ==
    CHOOSE m \in {df[i].low : i \in Last5(df)} : \A i \in Last5(df) : m <= df[i].low
SwingHigh(df) ==
    CHOOSE m \in {df[i].high : i \in Last5(df)} : \A i \in Last5(df) : m >= df[i].high

StopAndTarget(df, res) ==
    LET e == res.entry
        sl == res.sl
        tp == res.tp
    IN  /\ res.direction = "BULLISH" =>
            /\ sl < e /\ e < tp
            /\ 2 * (tp - e) = 5 * (e - sl)
            /\ 2000 * sl = 2000 * SwingLow(df) * Unit - e
        /\ res.direction = "BEARISH" =>
            /\ tp < e /\ e < sl
            /\ 2 * (e - tp) = 5 * (sl - e)
            /\ 2000 * sl = 2000 * SwingHigh(df) * Unit + e

\* C5: on well-formed candles with positive prices a BULLISH signal has
\* sl < entry < tp, a BEARISH one tp < entry < sl; entry to tp is 2.5 times
\* entry to sl; sl is the 5-bar swing low minus 0.0005 x entry (bullish), the
\* 5-bar swing high plus 0.0005 x entry (bearish).  (sl, entry, tp in 1/Unit.)
C5_StopAndTarget ==
    (Evaluated /\ call.result.direction # "None") =>
        (WellFormed(Frame) => StopAndTarget(Frame, call.result))

SwingBelowLast(df) == WellFormed(df) /\ SwingLow(df) < df[Len(df)].low

\* a BULLISH signal whose swing low lies under the last low
C5_Witness == Evaluated /\ call.result.direction = "BULLISH" /\ SwingBelowLast(Frame)

\* C6: a run analyses every symbol of SYMBOLS and ends normally, whatever fails
\* while one symbol is processed: the process never dies of an exception.
C6_RunCompletes == pc # "aborted"

UndefinedIsFalse(df, res) ==
    /\ (GapFloor(df) = NaN \/ Len(ObFloors(df)) = 0) =>
          res.raised = "no" /\ res.direction # "BULLISH"
    /\ (GapCeiling(df) = NaN \/ Len(ObCeilings(df)) = 0) =>
          res.raised = "no" /\ res.direction # "BEARISH"

\* C7: when a zone indicator has no value at the last bar the evaluation raises
\* nothing and gives no signal of that direction.
C7_UndefinedIsFalse == Evaluated => UndefinedIsFalse(Frame, call.result)

\* C8: a call whose fetch fails or brings fewer than MIN_CANDLES candles sends
\* nothing and leaves the whole history file as it was.
C8_SkipLeavesHistory ==
    [][(call' # call /\ call'.sym # "None" /\ Len(fetch_klines(call'.input)) < MIN_CANDLES) =>
        (state_file' = state_file /\ call'.alert = "none" /\ delivered' = delivered)]_vars

\* 199 candles that would signal, skipped over a history that holds entries
C8_Witness ==
    /\ Called
    /\ call.input.net = "ok" /\ call.input.rc = 0
    /\ call.input.n = MIN_CANDLES - 1
    /\ call.alert = "none"
    /\ state_file.status = "ok"

\* C9: a put for S changes the entry of S alone: get returns for every other
\* symbol what it returned before, and (str(t), d) for S.
C9_PutFrame ==
    [][state_file' # state_file =>
        /\ \A s \in SymbolSet \ {call'.sym} :
              get_last_signal(state_file')[s] = get_last_signal(state_file)[s]
        /\ get_last_signal(state_file')[call'.sym] =
              [timestamp |-> ToString(call'.result.ts),
               direction |-> call'.result.direction]]_vars

\* a put for one symbol while another symbol has an entry
C9_Witness ==
    /\ call.wrote
    /\ \E s \in SymbolSet \ {call.sym} : get_last_signal(state_file)[s] # Absent

BullBlocks(df) ==
    {i \in 1..(Len(df) - 1) : df[i].close > df[i].open /\ df[i + 1].close > df[i].high}
BearBlocks(df) ==
    {i \in 1..(Len(df) - 1) : df[i].close < df[i].open /\ df[i + 1].close < df[i].low}
Latest(S) == CHOOSE i \in S : \A j \in S : j <= i

OrderBlockLevel(df) ==
    /\ BullBlocks(df) # {} =>
          /\ Len(ObFloors(df)) > 0
          /\ iloc_last(ObFloors(df)) = df[Latest(BullBlocks(df))].low
    /\ BearBlocks(df) # {} =>
          /\ Len(ObCeilings(df)) > 0
          /\ iloc_last(ObCeilings(df)) = df[Latest(BearBlocks(df))].high

\* C10: the bullish order-block floor at the last bar is low[i] of the latest i
\* with close[i] > open[i] and close[i+1] > high[i]; the bearish ceiling is
\* high[i] of the latest i with close[i] < open[i] and close[i+1] < low[i].
C10_OrderBlockLevel == Evaluated => OrderBlockLevel(Frame)

====
